---- MODULE Spec2Model ----
(***************************************************************************)
(* A model of src/parser.py (kierenfunk/countdown): the punch tokenizer    *)
(* parse_row, the punch state machine parse, the filter/grouper report and *)
(* group_report, the formatter duration_into_units and the invoice view of *)
(* the __main__ block.                                                     *)
(*                                                                         *)
(* A Python str is a sequence of character codes (ord), so that str        *)
(* comparison, str.split and str.join are computed as Python computes      *)
(* them.  An optional value is a sequence: None is <<>>, x is <<x>>.       *)
(***************************************************************************)
EXTENDS Integers, Sequences, FiniteSets, TLC

VARIABLES
    pc,         \* which function is running and where it stands
    row,        \* parse_row / parse: the text of the line being tokenized
    parsed,     \* parse_row: its outcome for row
    i,          \* parse: index of the next line (enumerate(rows))
    events,     \* parse: the (char, parsed_t) of the lines read so far
    state,      \* parse: [previous phase, current phase]
    stack,      \* parse: the session list
    err,        \* parse: the exception raised, or NoneVal
    result,     \* parse: the returned list, or NoneVal
    args,       \* the arguments of the call of a formatter or report function
    out         \* what that call returned or printed, or NoneVal

vars == <<pc, row, parsed, i, events, state, stack, err, result, args, out>>

NoneVal == <<>>
Some(x) == <<x>>

(***************************************************************************)
(* Bounds of the model.                                                    *)
(***************************************************************************)
MaxLen == 7      \* longest remainder text of a line given to parse_row
MaxRows == 4     \* most lines of a log given to parse
MaxTime == 2     \* timestamps of a log range over 0..MaxTime
MaxSeconds == 5400  \* durations given to duration_into_units: 0..MaxSeconds
MaxSessions == 3    \* most sessions of a list given to report or group_report

(***************************************************************************)
(* Character codes.                                                        *)
(***************************************************************************)
SP == 32         \* " "
NL == 10         \* "\n"

\* The four action codes "i", "o", "p", "u" as strings.
ClockIn == <<105>>
ClockOut == <<111>>
Pause == <<112>>
Unpause == <<117>>

\* Stand-ins for the two timestamp tokens of a line ("D" and "T"): strptime
\* is not modelled, the parsed time is carried beside the text.
DateTok == <<68>>
TimeTok == <<84>>

(***************************************************************************)
(* Python str and list operations.                                         *)
(***************************************************************************)
Last(s) == s[Len(s)]

Whitespace == {SP, NL}

\* str.strip(): leading and trailing whitespace removed.
RECURSIVE LStrip(_)
LStrip(s) ==
    IF s # <<>> /\ Head(s) \in Whitespace THEN LStrip(Tail(s)) ELSE s

RECURSIVE RStrip(_)
RStrip(s) ==
    IF s # <<>> /\ Last(s) \in Whitespace
    THEN RStrip(SubSeq(s, 1, Len(s) - 1))
    ELSE s

Strip(s) == RStrip(LStrip(s))

\* Whether sep occurs in s at position k.
OccursAt(s, sep, k) ==
    /\ k + Len(sep) - 1 <= Len(s)
    /\ SubSeq(s, k, k + Len(sep) - 1) = sep

\* str.split(sep): left to right, occurrences of sep do not overlap.
RECURSIVE SplitFrom(_, _, _)
SplitFrom(s, sep, k) ==
    IF k + Len(sep) - 1 > Len(s) THEN <<s>>
    ELSE IF OccursAt(s, sep, k)
         THEN <<SubSeq(s, 1, k - 1)>>
                  \o SplitFrom(SubSeq(s, k + Len(sep), Len(s)), sep, 1)
         ELSE SplitFrom(s, sep, k + 1)

Split(s, sep) == SplitFrom(s, sep, 1)

\* sep.join(parts)
RECURSIVE Join(_, _)
Join(sep, parts) ==
    IF parts = <<>> THEN <<>>
    ELSE IF Len(parts) = 1 THEN parts[1]
    ELSE parts[1] \o sep \o Join(sep, Tail(parts))

\* lst[a:] with a 0-based
SliceFrom(lst, a) == SubSeq(lst, a + 1, Len(lst))

(***************************************************************************)
(* parse_row                                                               *)
(***************************************************************************)
ValidStates == {ClockIn, ClockOut, Pause, Unpause}

\* Line 107: " ".join(row_split[3:]).split("  ")
TagAndNotes(row_split) ==
    Split(Join(<<SP>>, SliceFrom(row_split, 3)), <<SP, SP>>)

\* The outcome of parse_row(row, i) but for parsed_time: the exception it
\* raises (kind, and the row index the message names) or (state, tag, notes).
parse_row(r, idx) ==
    LET row_split == Split(Strip(r), <<SP>>)
        st == row_split[1]
        tn0 == TagAndNotes(row_split)
        tn == IF Len(tn0) < 2 THEN Append(tn0, <<>>) ELSE tn0
    IN  IF st \notin ValidStates
        THEN [ok |-> FALSE, kind |-> "InvalidTimeclock", row |-> idx]
        ELSE IF Len(tn) # 2
        THEN \* tag, notes = tag_and_notes: too many values to unpack
             [ok |-> FALSE, kind |-> "ValueError"]
        ELSE [ok |-> TRUE, state |-> st, tag |-> tn[1], notes |-> tn[2]]

\* A line of the log: action code, the two timestamp tokens, the remainder,
\* and the newline readlines() keeps.
MkLine(code, rem) ==
    code \o <<SP>> \o DateTok \o <<SP>> \o TimeTok
         \o (IF rem = <<>> THEN <<>> ELSE <<SP>> \o rem) \o <<NL>>

\* All strings over the characters of S of length at most n.
StrUpTo(S, n) == UNION {[1..k -> S] : k \in 0..n}

RowCodes == ValidStates \cup {<<120>>}
RowRems == StrUpTo({SP, 97}, MaxLen)

InitRow ==
    /\ pc = "parse_row"
    /\ \E code \in RowCodes, rem \in RowRems : row = MkLine(code, rem)
    /\ parsed = NoneVal
    /\ i = 0
    /\ events = <<>>
    /\ state = <<0, 0>>
    /\ stack = <<>>
    /\ err = NoneVal
    /\ result = NoneVal
    /\ args = NoneVal
    /\ out = NoneVal

ParseRow ==
    /\ pc = "parse_row"
    /\ parsed' = Some(parse_row(row, 0))
    /\ pc' = "parse_row_done"
    /\ UNCHANGED <<row, i, events, state, stack, err, result, args, out>>

NextRow == ParseRow

SpecRow == InitRow /\ [][NextRow]_vars

(***************************************************************************)
(* parse                                                                   *)
(***************************************************************************)
\* Lines 115-120
chars == (ClockIn :> 1) @@ (Pause :> 2) @@ (Unpause :> 3) @@ (ClockOut :> 0)

\* table with the Unpaused row's Pause entry sending the machine to Running
tableUnpausedPauseRuns ==
    << <<-1,  1, -1, -1>>,
       << 0, -1,  2, -1>>,
       << 0,  1, -1,  3>>,
       << 0,  1,  1, -1>> >>

\* table with an entry for Pause in phase 0, leading to phase 2
tableIdlePauses ==
    << <<-1,  1,  2, -1>>,
       << 0, -1,  2, -1>>,
       << 0,  1, -1,  3>>,
       << 0,  1,  2, -1>> >>

\* Lines 122-127: rows are phases 0..3, columns are chars values 0..3
table ==
    << <<-1,  1, -1, -1>>,    \* no timer
       << 0, -1,  2, -1>>,    \* running timer
       << 0,  1, -1,  3>>,    \* paused timer
       << 0,  1,  2, -1>> >>  \* unpaused timer

\* Line 135: state[0], state[1] = state[1], table[state[1]][chars[char]]
NextState(st, char) == <<st[2], table[st[2] + 1][chars[char] + 1]>>

\* the check of line 137 missing for an event arriving in phase 0
IllegalUnlessIdle(st) == st[2] = -1 /\ st[1] # 0

\* Line 137
Illegal(st) == st[2] = -1

\* a session opened by a ClockIn arriving in phase 2 as well
OpensFromIdleOrPaused(st) == st[2] = 1 /\ st[1] \in {0, 2}

\* a session opened by every ClockIn
OpensOnClockIn(st) == st[2] = 1

\* Line 140
OpensSession(st) == st = <<0, 1>>

\* the narrower accumulation rule: only phase 1 counts
ClockTickingRunningOnly(st) == st[1] \in {1}

\* the clock ticking in every phase but Idle
ClockTickingUnlessIdle(st) == st[1] \in {1, 2, 3}

\* Line 149
ClockTicking(st) == st[1] \in {1, 3}

\* Lines 141-147
NewSession(parsed_t, tag, notes) ==
    [start_time |-> parsed_t, last_timestamp |-> parsed_t, tag |-> tag,
     duration |-> 0, notes |-> notes]

\* elapsed time measured from the session's start
AddElapsedSinceStart(sess, parsed_t) ==
    [sess EXCEPT !.duration = @ + (parsed_t - sess.start_time)]

\* the difference taken the other way round
AddElapsedReversed(sess, parsed_t) ==
    [sess EXCEPT !.duration = @ + (sess.last_timestamp - parsed_t)]

\* Line 150: stack[-1]["duration"] += parsed_t - stack[-1]['last_timestamp']
AddElapsed(sess, parsed_t) ==
    [sess EXCEPT !.duration = @ + (parsed_t - sess.last_timestamp)]

\* last_timestamp left alone once time has accrued
SetLastTimestampOnce(sess, parsed_t) ==
    IF sess.duration > 0 THEN sess ELSE [sess EXCEPT !.last_timestamp = parsed_t]

\* Line 152: stack[-1]["last_timestamp"] = parsed_t
SetLastTimestamp(sess, parsed_t) == [sess EXCEPT !.last_timestamp = parsed_t]

\* stk with its first element replaced
WithFirst(stk, sess) == [stk EXCEPT ![1] = sess]

\* stk with its last element replaced
WithLast(stk, sess) == [stk EXCEPT ![Len(stk)] = sess]

Times == 0..MaxTime

\* Remainders of the lines of a log: "w", "x  n", "w  n  n"
LogRems == {<<119>>, <<120, 32, 32, 110>>, <<119, 32, 32, 110, 32, 32, 110>>}

\* The log of the end-to-end scenario: its four actions, the remainders
\* "work  start" and "work", and 09:00:00, 10:00:00, 10:15:00, 11:00:00 as
\* seconds of one day.
ScenarioActions == <<ClockIn, Pause, Unpause, ClockOut>>
ScenarioRems ==
    {<<119, 111, 114, 107, 32, 32, 115, 116, 97, 114, 116>>,
     <<119, 111, 114, 107>>}
ScenarioTimes == <<9 * 3600, 10 * 3600, 10 * 3600 + 15 * 60, 11 * 3600>>

Init ==
    /\ pc = "parse"
    /\ row = <<>>
    /\ parsed = NoneVal
    /\ i = 0
    /\ events = <<>>
    /\ state = <<0, 0>>
    /\ stack = <<>>
    /\ err = NoneVal
    /\ result = NoneVal
    /\ args = NoneVal
    /\ out = NoneVal

\* One iteration of the loop of lines 133-152, on the next line of a file of
\* at most Len(C) lines, line k (from 0) having its action code in C[k + 1],
\* its timestamp in T and its remainder in R.
LoopBodyOn(T, R, C) ==
    /\ pc = "parse"
    /\ i < Len(C)
    /\ \E code \in C[i + 1], parsed_t \in T, rem \in R :
         LET line == MkLine(code, rem)
             r == parse_row(line, i)
             st == NextState(state, r.state)
             stack1 == IF OpensSession(st)
                       THEN Append(stack, NewSession(parsed_t, r.tag, r.notes))
                       ELSE stack
             stack2 == IF ClockTicking(st)
                       THEN WithLast(stack1, AddElapsed(Last(stack1), parsed_t))
                       ELSE stack1
             stack3 == WithLast(stack2, SetLastTimestamp(Last(stack2), parsed_t))
         IN  /\ row' = line
             /\ IF ~r.ok
                THEN \* parse_row raised: nothing of line 135 on has run
                     /\ pc' = "raised"
                     /\ err' = Some([kind |-> r.kind, row |-> i])
                     /\ UNCHANGED <<i, events, state, stack>>
                ELSE /\ events' = Append(events, [char |-> r.state, t |-> parsed_t])
                     /\ state' = st
                     /\ IF Illegal(st)
                        THEN /\ pc' = "raised"
                             /\ err' = Some([kind |-> "WasntExpecting", row |-> i])
                             /\ UNCHANGED <<i, stack>>
                        ELSE IF stack1 = <<>>
                        THEN \* stack[-1] of an empty list
                             /\ pc' = "raised"
                             /\ err' = Some([kind |-> "IndexError", row |-> i])
                             /\ UNCHANGED <<i, stack>>
                        ELSE /\ stack' = stack3
                             /\ i' = i + 1
                             /\ UNCHANGED <<pc, err>>
    /\ UNCHANGED <<parsed, result, args, out>>

LoopBody == LoopBodyOn(Times, LogRems, [k \in 1..MaxRows |-> ValidStates])

\* Line 153, once the loop has run over every line of the file.
Return ==
    /\ pc = "parse"
    /\ pc' = "returned"
    /\ result' = Some(stack)
    /\ UNCHANGED <<row, parsed, i, events, state, stack, err, args, out>>

Next == LoopBody \/ Return

Spec == Init /\ [][Next]_vars

\* parse on the logs of the scenario's four actions in its order, each at
\* one of the scenario's times or at a time of 0..MaxTime.
ScenarioLoopBody ==
    LoopBodyOn({ScenarioTimes[k] : k \in DOMAIN ScenarioTimes} \cup Times,
               ScenarioRems,
               [k \in DOMAIN ScenarioActions |-> {ScenarioActions[k]}])

NextScenario == ScenarioLoopBody \/ Return

SpecScenario == Init /\ [][NextScenario]_vars

\* what a call would start from if the list outlived the call before it
StackLeft(left) == left

\* Line 129: stack is a local of parse, bound to a new empty list by each
\* call, whatever the list left of the call before held
StackAtEntry(left) == <<>>

\* Line 128: state is a local of parse, bound to a new [0, 0] by each call
StateAtEntry(left) == <<0, 0>>

\* Remainders of the lines of the logs parsed one after another: "w" and the
\* malformed "w  n  n"
AgainRems == {<<119>>, <<119, 32, 32, 110, 32, 32, 110>>}

AgainLoopBody == LoopBodyOn(Times, AgainRems, [k \in 1..MaxRows |-> ValidStates])

\* parse called on another file once a call has returned or raised: lines
\* 115-129 run again. The caller keeps how the earlier call ended.
ParseAgain ==
    /\ pc \in {"returned", "raised"}
    /\ pc' = "parse"
    /\ row' = <<>>
    /\ i' = 0
    /\ events' = <<>>
    /\ state' = StateAtEntry(state)
    /\ stack' = StackAtEntry(stack)
    /\ err' = NoneVal
    /\ result' = NoneVal
    /\ out' = Some([pc |-> pc, phase |-> state[2]])
    /\ UNCHANGED <<parsed, args>>

NextAgain == AgainLoopBody \/ Return \/ ParseAgain

SpecAgain == Init /\ [][NextAgain]_vars

(***************************************************************************)
(* duration_into_units                                                     *)
(***************************************************************************)
SECONDS_IN_AN_HOUR == 3600
SECONDS_IN_A_MINUTE == 60

\* The unit letters "m", "h", "s"
UnitM == <<109>>
UnitH == <<104>>
UnitS == <<115>>
Units == {UnitM, UnitH, UnitS}

Abs(n) == IF n < 0 THEN -n ELSE n

\* The decimal digits of a natural number, as a str.
RECURSIVE NatStr(_)
NatStr(n) ==
    IF n < 10 THEN <<48 + n>> ELSE NatStr(n \div 10) \o <<48 + (n % 10)>>

\* int() of a str of decimal digits
RECURSIVE DigitsValueOf(_)
DigitsValueOf(str) ==
    IF str = <<>> THEN 0
    ELSE 10 * DigitsValueOf(SubSeq(str, 1, Len(str) - 1)) + (Last(str) - 48)

\* str(n) of an int
IntStr(n) == IF n < 0 THEN <<45>> \o NatStr(-n) ELSE NatStr(n)

\* round down to 2 decimal places instead of to the nearest
RoundedDown(d, per) == {(100 * d) \div per}

\* round(d / per, 2) in hundredths.  The float d / per is the double next to
\* the quotient; when the quotient lies exactly between two hundredths the
\* side that double falls on decides (round(18/3600, 2) is 0.01 and
\* round(54/3600, 2) is 0.01), and both are outcomes here.
Rounded(d, per) ==
    LET q == (100 * d) \div per
        r == (100 * d) % per
    IN  IF 2 * r < per THEN {q}
        ELSE IF 2 * r > per THEN {q + 1}
        ELSE {q, q + 1}

\* repr of the float h / 100 (negative is whether d / per was below zero):
\* the shortest decimal, with one decimal digit at least.
FloatStr(h, negative) ==
    LET a == Abs(h)
        frac == a % 100
    IN  (IF negative THEN <<45>> ELSE <<>>)
            \o NatStr(a \div 100) \o <<46>>
            \o (IF frac % 10 = 0 THEN NatStr(frac \div 10)
                ELSE <<48 + (frac \div 10), 48 + (frac % 10)>>)

\* Lines 13-15 and 17-19: the strings f'{val}' can be, val being int(val)
\* when the seconds divide evenly and round(val, 2) otherwise.
ValStrs(duration_in_seconds, per) ==
    IF duration_in_seconds % per = 0
    THEN {IntStr(duration_in_seconds \div per)}
    ELSE {FloatStr(h, duration_in_seconds < 0) :
              h \in Rounded(duration_in_seconds, per)}

\* The strings duration_into_units can return (one, but for the ties of
\* Rounded).
duration_into_units(duration_in_seconds, desired_units) ==
    IF desired_units = UnitM
    THEN {v \o UnitM : v \in ValStrs(duration_in_seconds, SECONDS_IN_A_MINUTE)}
    ELSE IF desired_units = UnitH
    THEN {v \o UnitH : v \in ValStrs(duration_in_seconds, SECONDS_IN_AN_HOUR)}
    ELSE {IntStr(duration_in_seconds) \o UnitS}

InitUnits ==
    /\ pc = "duration_into_units"
    /\ \E d \in 0..MaxSeconds, u \in Units :
           args = [duration_in_seconds |-> d, desired_units |-> u]
    /\ out = NoneVal
    /\ row = <<>>
    /\ parsed = NoneVal
    /\ i = 0
    /\ events = <<>>
    /\ state = <<0, 0>>
    /\ stack = <<>>
    /\ err = NoneVal
    /\ result = NoneVal

DurationIntoUnits ==
    /\ pc = "duration_into_units"
    /\ \E str \in duration_into_units(args.duration_in_seconds, args.desired_units) :
           out' = Some(str)
    /\ pc' = "duration_into_units_done"
    /\ UNCHANGED <<row, parsed, i, events, state, stack, err, result, args>>

NextUnits == DurationIntoUnits

SpecUnits == InitUnits /\ [][NextUnits]_vars

(***************************************************************************)
(* datetime.fromtimestamp, strftime and str(datetime).  The local time     *)
(* zone is taken to be UTC.                                                *)
(***************************************************************************)
SECONDS_IN_A_DAY == 86400

\* Days since 1970-01-01 of the civil date (y, m, d), proleptic Gregorian.
DaysFromCivil(y, m, d) ==
    LET yy == IF m <= 2 THEN y - 1 ELSE y
        era == yy \div 400
        yoe == yy - era * 400
        mp == IF m > 2 THEN m - 3 ELSE m + 9
        doy == (153 * mp + 2) \div 5 + d - 1
        doe == yoe * 365 + yoe \div 4 - yoe \div 100 + doy
    IN  era * 146097 + doe - 719468

\* The civil date of the day z days after 1970-01-01.
CivilFromDays(z) ==
    LET zz == z + 719468
        era == zz \div 146097
        doe == zz - era * 146097
        yoe == (doe - doe \div 1460 + doe \div 36524 - doe \div 146096) \div 365
        doy == doe - (365 * yoe + yoe \div 4 - yoe \div 100)
        mp == (5 * doy + 2) \div 153
        d == doy - (153 * mp + 2) \div 5 + 1
        m == IF mp < 10 THEN mp + 3 ELSE mp - 9
        y == yoe + era * 400 + (IF m <= 2 THEN 1 ELSE 0)
    IN  [year |-> y, month |-> m, day |-> d]

\* datetime.fromtimestamp(timestamp)
FromTimestamp(timestamp) ==
    LET days == timestamp \div SECONDS_IN_A_DAY
        secs == timestamp % SECONDS_IN_A_DAY
        date == CivilFromDays(days)
    IN  [year |-> date.year, month |-> date.month, day |-> date.day,
         hour |-> secs \div 3600, minute |-> (secs % 3600) \div 60,
         second |-> secs % 60,
         \* day of the year from 0, and day of the week with Monday 0
         yday |-> days - DaysFromCivil(date.year, 1, 1),
         wday |-> (days + 3) % 7]

\* n in decimal, zero-padded to width digits.
RECURSIVE Padded(_, _)
Padded(n, width) ==
    IF width <= 1 THEN NatStr(n)
    ELSE IF Len(NatStr(n)) >= width THEN NatStr(n)
    ELSE <<48>> \o Padded(n, width - 1)

Dash == <<45>>
Colon == <<58>>

\* strftime of %Y, %m, %d, %H and %W (week of the year, weeks starting on
\* Monday, the days before the first Monday in week 0)
FmtY(dt) == Padded(dt.year, 4)
Fmtm(dt) == Padded(dt.month, 2)
Fmtd(dt) == Padded(dt.day, 2)
FmtH(dt) == Padded(dt.hour, 2)
FmtW(dt) == Padded((dt.yday + 7 - dt.wday) \div 7, 2)

\* str(datetime): YYYY-MM-DD HH:MM:SS
DateTimeStr(dt) ==
    FmtY(dt) \o Dash \o Fmtm(dt) \o Dash \o Fmtd(dt) \o <<SP>> \o FmtH(dt)
        \o Colon \o Padded(dt.minute, 2) \o Colon \o Padded(dt.second, 2)

\* The grouping letters "d", "w", "m", "y", "h"
GroupD == <<100>>
GroupW == <<119>>
GroupM == <<109>>
GroupY == <<121>>
GroupH == <<104>>
Groupings == {GroupD, GroupW, GroupM, GroupY, GroupH}

\* Lines 22-32
get_date_key(timestamp, units) ==
    LET start_time == FromTimestamp(timestamp)
    IN  IF units = GroupM THEN FmtY(start_time) \o Dash \o Fmtm(start_time)
        ELSE IF units = GroupW THEN FmtY(start_time) \o Dash \o FmtW(start_time)
        ELSE IF units = GroupY THEN FmtY(start_time)
        ELSE IF units = GroupD
        THEN FmtY(start_time) \o Dash \o Fmtm(start_time) \o Dash \o Fmtd(start_time)
        ELSE FmtY(start_time) \o Dash \o Fmtm(start_time) \o Dash
                 \o Fmtd(start_time) \o Dash \o FmtH(start_time)

\* Lines 34-43, as line 65 prints it: the key itself, or for the hour keys
\* str(datetime.strptime(date_key, "%Y-%m-%d-%H"))
date_key_to_timestamp(date_key, units) ==
    IF units \in {GroupM, GroupW, GroupY, GroupD} THEN date_key
    ELSE LET parts == Split(date_key, Dash)
         IN  DateTimeStr([year |-> DigitsValueOf(parts[1]),
                          month |-> DigitsValueOf(parts[2]),
                          day |-> DigitsValueOf(parts[3]),
                          hour |-> DigitsValueOf(parts[4]),
                          minute |-> 0, second |-> 0])

(***************************************************************************)
(* sorted(), with Python's comparison of str and of tuples                 *)
(***************************************************************************)
\* a < b for two str: by the first character that differs, a prefix first
RECURSIVE StrLess(_, _)
StrLess(a, b) ==
    IF b = <<>> THEN FALSE
    ELSE IF a = <<>> THEN TRUE
    ELSE IF Head(a) # Head(b) THEN Head(a) < Head(b)
    ELSE StrLess(Tail(a), Tail(b))

\* The sequences that take one element of each set of the sequence opts.
RECURSIVE OneOfEach(_)
OneOfEach(opts) ==
    IF opts = <<>> THEN {<<>>}
    ELSE {<<x>> \o rest : x \in Head(opts), rest \in OneOfEach(Tail(opts))}

(***************************************************************************)
(* group_report                                                            *)
(***************************************************************************)
\* Line 47
GroupKeys(data, grouping_units) ==
    [k \in DOMAIN data |->
        <<get_date_key(data[k].start_time, grouping_units), data[k].tag,
          data[k].duration>>]

\* Line 48: key=lambda x: (x[0], x[1])
KeyLess(x, y) == StrLess(x[1], y[1]) \/ (x[1] = y[1] /\ StrLess(x[2], y[2]))

\* Line 48: sorted(keys, key=...), stable
RECURSIVE InsertKey(_, _)
InsertKey(keys, x) ==
    IF keys = <<>> THEN <<x>>
    ELSE IF KeyLess(x, Head(keys)) THEN <<x>> \o keys
    ELSE <<Head(keys)>> \o InsertKey(Tail(keys), x)

RECURSIVE SortedKeys(_)
SortedKeys(keys) ==
    IF keys = <<>> THEN <<>>
    ELSE InsertKey(SortedKeys(SubSeq(keys, 1, Len(keys) - 1)), Last(keys))

\* rows merged on the tag alone
SameTag(r, last) == r[2] = last[2]

\* Line 55
SameGroup(r, last) == r[2] = last[2] /\ r[1] = last[1]

\* the merged row keeping the later duration only
ReplacedBy(last, r) == [last EXCEPT ![3] = r[3]]

\* Line 56: result[-1][2] += row[2]
AddedTo(last, r) == [last EXCEPT ![3] = @ + r[3]]

\* Lines 50-60: the loop over the rows of keys, result being res so far
RECURSIVE Merged(_, _)
Merged(res, keys) ==
    IF keys = <<>> THEN res
    ELSE LET r == Head(keys)
         IN  IF Len(res) < 1 THEN Merged(Append(res, r), Tail(keys))
             ELSE IF SameGroup(r, Last(res))
             THEN Merged(WithLast(res, AddedTo(Last(res), r)), Tail(keys))
             ELSE Merged(Append(res, r), Tail(keys))

\* Lines 47-60: the list result
GroupResult(data, grouping_units) ==
    Merged(<<>>, SortedKeys(GroupKeys(data, grouping_units)))

\* Lines 62-65: the lines printed, as their three tab-separated fields
GroupPrinted(res, grouping_units, units) ==
    OneOfEach([k \in DOMAIN res |->
        {[timestamp |-> date_key_to_timestamp(res[k][1], grouping_units),
          tag |-> res[k][2], duration |-> d] :
              d \in duration_into_units(res[k][3], units)}])

(***************************************************************************)
(* report                                                                  *)
(***************************************************************************)
\* Line 76: key=lambda x: (x["start_time"], x["tag"])
RowLess(x, y) ==
    \/ x.start_time < y.start_time
    \/ x.start_time = y.start_time /\ StrLess(x.tag, y.tag)

\* Line 79
HasTag(r, tag) == r.tag = tag

\* Line 83
NotBeforeBegin(r, begin) == r.start_time >= begin

\* the end bound taken as inclusive
NotAfterEnd(r, end) == r.last_timestamp <= end

\* Line 87
BeforeEnd(r, end) == r.last_timestamp < end

\* Line 76: sorted([row for row in data], key=...), stable
RECURSIVE InsertRow(_, _)
InsertRow(data, x) ==
    IF data = <<>> THEN <<x>>
    ELSE IF RowLess(x, Head(data)) THEN <<x>> \o data
    ELSE <<Head(data)>> \o InsertRow(Tail(data), x)

RECURSIVE SortedRows(_)
SortedRows(data) ==
    IF data = <<>> THEN <<>>
    ELSE InsertRow(SortedRows(SubSeq(data, 1, Len(data) - 1)), Last(data))

\* Line 79: [row for row in data if row["tag"] == tag]
RECURSIVE FilterTag(_, _)
FilterTag(data, tag) ==
    IF data = <<>> THEN <<>>
    ELSE (IF HasTag(Head(data), tag) THEN <<Head(data)>> ELSE <<>>)
             \o FilterTag(Tail(data), tag)

\* Line 83: [row for row in data if row["start_time"] >= begin]
RECURSIVE FilterBegin(_, _)
FilterBegin(data, begin) ==
    IF data = <<>> THEN <<>>
    ELSE (IF NotBeforeBegin(Head(data), begin) THEN <<Head(data)>> ELSE <<>>)
             \o FilterBegin(Tail(data), begin)

\* Line 87: [row for row in data if row["last_timestamp"] < end]
RECURSIVE FilterEnd(_, _)
FilterEnd(data, end) ==
    IF data = <<>> THEN <<>>
    ELSE (IF BeforeEnd(Head(data), end) THEN <<Head(data)>> ELSE <<>>)
             \o FilterEnd(Tail(data), end)

\* Lines 76-87: data after the sort and the three filters
Filtered(data, begin, end, tag) ==
    LET sorted == SortedRows(data)
        data1 == IF tag # NoneVal THEN FilterTag(sorted, tag[1]) ELSE sorted
        data2 == IF begin # NoneVal THEN FilterBegin(data1, begin[1]) ELSE data1
    IN  IF end # NoneVal THEN FilterEnd(data2, end[1]) ELSE data2

\* Lines 94-98: the lines printed after the header
ReportPrinted(data, units) ==
    OneOfEach([k \in DOMAIN data |->
        {[start |-> DateTimeStr(FromTimestamp(data[k].start_time)),
          end |-> DateTimeStr(FromTimestamp(data[k].last_timestamp)),
          duration |-> d, tag |-> data[k].tag] :
              d \in duration_into_units(data[k].duration, units)}])

\* The session lists given to report and group_report: sessions of tag "a"
\* or "b" started on 1970-01-31 at 10:00:00 or 11:30:00 or on 1970-02-02 at
\* 09:00:00, that ran unpaused for half an hour or an hour and a half.
ReportStarts ==
    {30 * 86400 + 10 * 3600, 30 * 86400 + 11 * 3600 + 1800, 32 * 86400 + 9 * 3600}
ReportTags == {<<97>>, <<98>>}
ReportDurations == {1800, 5400}

ReportSessions ==
    {[start_time |-> t, last_timestamp |-> t + d, tag |-> g, duration |-> d,
      notes |-> <<>>] : t \in ReportStarts, g \in ReportTags, d \in ReportDurations}

Lists(S, n) == UNION {[1..k -> S] : k \in 0..n}

\* The begin and end bounds given to report: 1970-01-31 11:30:00 and
\* 1970-01-31 13:00:00
ReportBegins == {NoneVal, Some(30 * 86400 + 11 * 3600 + 1800)}
ReportEnds == {NoneVal, Some(30 * 86400 + 13 * 3600)}

InitSessions(start) ==
    /\ pc = start
    /\ stack \in Lists(ReportSessions, MaxSessions)
    /\ args = NoneVal
    /\ out = NoneVal
    /\ row = <<>>
    /\ parsed = NoneVal
    /\ i = 0
    /\ events = <<>>
    /\ state = <<0, 0>>
    /\ err = NoneVal
    /\ result = NoneVal

\* the caller's list had line 76 sorted it in place, as data.sort(key=...)
SortedInPlace(data) == SortedRows(data)

\* Line 76: sorted() is given [row for row in data] and returns a new list,
\* to which the name data is bound; lines 79, 83 and 87 build new lists too.
\* The list the caller passed is the one it was.
DataAfterSorted(data) == data

\* Lines 47-60: keys holds tuples of values read from the rows, result holds
\* list(row) of those tuples, and line 56 adds to a list of result; lines
\* 62-65 and 94-98 read. The rows the caller passed are the ones they were.
DataAfterGroupReport(data) == data

InitGroup == InitSessions("group_report")

\* group_report(stack, grouping_units, units)
GroupReport ==
    /\ pc = "group_report"
    /\ \E grouping_units \in Groupings, units \in Units :
         LET res == GroupResult(stack, grouping_units)
         IN  /\ args' = [grouping_units |-> grouping_units, units |-> units]
             /\ \E printed \in GroupPrinted(res, grouping_units, units) :
                    out' = Some([result |-> res, printed |-> printed])
    /\ pc' = "group_report_done"
    /\ stack' = DataAfterGroupReport(stack)
    /\ UNCHANGED <<row, parsed, i, events, state, err, result>>

NextGroup == GroupReport

SpecGroup == InitGroup /\ [][NextGroup]_vars

InitReport == InitSessions("report")

\* report(stack, begin, end, tag, grouping, units), grouping being None, the
\* default "w" or "h", and units the default "h"
Report ==
    /\ pc = "report"
    /\ \E begin \in ReportBegins, end \in ReportEnds,
          tag \in {NoneVal} \cup {Some(g) : g \in ReportTags},
          grouping \in {NoneVal, Some(GroupW), Some(GroupH)}, units \in {UnitH} :
         LET data == Filtered(stack, begin, end, tag)
             res == IF grouping # NoneVal THEN GroupResult(data, grouping[1]) ELSE <<>>
         IN  /\ args' = [begin |-> begin, end |-> end, tag |-> tag,
                         grouping |-> grouping, units |-> units]
             /\ \E printed \in (IF grouping # NoneVal
                                THEN GroupPrinted(res, grouping[1], units)
                                ELSE ReportPrinted(data, units)) :
                    out' = Some([data |-> data, result |-> res, printed |-> printed])
    /\ pc' = "report_done"
    /\ stack' = DataAfterGroupReport(DataAfterSorted(stack))
    /\ UNCHANGED <<row, parsed, i, events, state, err, result>>

NextReport == Report

SpecReport == InitReport /\ [][NextReport]_vars

\* Either view called on a list of sessions.
InitViews == InitReport \/ InitGroup

NextViews == Report \/ GroupReport

SpecViews == InitViews /\ [][NextViews]_vars

(***************************************************************************)
(* The invoice view of the __main__ block, lines 164-205, once parse has   *)
(* returned stack.  A float is the rational <<numerator, denominator>> it  *)
(* stands for: the rounding of float division and addition is not          *)
(* modelled.                                                               *)
(***************************************************************************)
\* x / n for a float x
Over(x, n) == <<x[1], x[2] * n>>

\* x + y for two floats
Plus(x, y) ==
    IF x[2] = y[2] THEN <<x[1] + y[1], x[2]>>
    ELSE <<x[1] * y[2] + y[1] * x[2], x[2] * y[2]>>

\* a <= b for two str
StrLessEq(a, b) == a = b \/ StrLess(a, b)

\* Lines 181-183: whether the item goes to results
Invoiced(item, tag, begin_date, end_date) ==
    LET start == FromTimestamp(item.start_time)
        month == FmtY(start) \o Dash \o Fmtm(start)
        is_after_begin == begin_date = NoneVal \/ StrLessEq(begin_date[1], month)
        is_before_end == end_date = NoneVal \/ StrLess(month, end_date[1])
    IN  Some(item.tag) = tag /\ is_after_begin /\ is_before_end

\* Lines 184-189: the row of results an item makes (hours is never read)
ResultRow(item) ==
    LET start == FromTimestamp(item.start_time)
    IN  [day |-> FmtY(start) \o Dash \o Fmtm(start) \o Dash \o Fmtd(start),
         notes |-> item.notes,
         minutes |-> <<item.duration, SECONDS_IN_A_MINUTE>>]

\* Lines 176-189
RECURSIVE Results(_, _, _, _)
Results(items, tag, begin_date, end_date) ==
    IF items = <<>> THEN <<>>
    ELSE (IF Invoiced(Head(items), tag, begin_date, end_date)
          THEN <<ResultRow(Head(items))>> ELSE <<>>)
             \o Results(Tail(items), tag, begin_date, end_date)

\* Lines 190-192: the keys of grouped in insertion order ...
RECURSIVE DaysInOrder(_)
DaysInOrder(results) ==
    IF results = <<>> THEN <<>>
    ELSE LET before == DaysInOrder(SubSeq(results, 1, Len(results) - 1))
         IN  IF \E k \in DOMAIN before : before[k] = Last(results).day
             THEN before
             ELSE Append(before, Last(results).day)

\* ... and the rows under one key
RECURSIVE RowsOfDay(_, _)
RowsOfDay(results, day) ==
    IF results = <<>> THEN <<>>
    ELSE (IF Head(results).day = day THEN <<Head(results)>> ELSE <<>>)
             \o RowsOfDay(Tail(results), day)

\* Line 196: list(set(filter(len(note) > 0, ...))) in the orders a set can
\* be listed in
NoteLists(rows) ==
    LET notes == {rows[k].notes : k \in DOMAIN rows} \ {<<>>}
    IN  {f \in [1..Cardinality(notes) -> notes] :
             \A a, b \in DOMAIN f : a # b => f[a] # f[b]}

\* Line 197: sum(row["minutes"] for row in rows)
RECURSIVE SumMinutes(_)
SumMinutes(rows) ==
    IF rows = <<>> THEN <<0, 1>>
    ELSE Plus(SumMinutes(SubSeq(rows, 1, Len(rows) - 1)), Last(rows).minutes)

\* the minutes taken for the quantity
QuantityInMinutes(minutes) == minutes

\* Line 201: "quantity": minutes/60
Quantity(minutes) == Over(minutes, 60)

\* Lines 195-202: the line items one day can give
LineItems(date, rows) ==
    {[date |-> date, notes |-> Join(<<NL>>, lst),
      quantity |-> Quantity(SumMinutes(rows))] : lst \in NoteLists(rows)}

\* Line 204: sorted(line_items, key=lambda x: x['date']), stable
RECURSIVE InsertItem(_, _)
InsertItem(items, x) ==
    IF items = <<>> THEN <<x>>
    ELSE IF StrLess(x.date, Head(items).date) THEN <<x>> \o items
    ELSE <<Head(items)>> \o InsertItem(Tail(items), x)

RECURSIVE SortedItems(_)
SortedItems(items) ==
    IF items = <<>> THEN <<>>
    ELSE InsertItem(SortedItems(SubSeq(items, 1, Len(items) - 1)), Last(items))

\* The session lists given to the invoice view: sessions started at one of
\* ReportStarts, of half an hour in the morning of 1970-01-31 and an hour and
\* a half otherwise, with tag "a" and notes "", "n" or "m", or tag "b" and
\* notes "n".
InvoiceTagNotes ==
    {<<(<<97>>), (<<>>)>>, <<(<<97>>), (<<110>>)>>, <<(<<97>>), (<<109>>)>>,
     <<(<<98>>), (<<110>>)>>}

InvoiceSessions ==
    {LET d == IF t = 30 * 86400 + 10 * 3600 THEN 1800 ELSE 5400
     IN  [start_time |-> t, last_timestamp |-> t + d, tag |-> tn[1],
          duration |-> d, notes |-> tn[2]] :
        t \in ReportStarts, tn \in InvoiceTagNotes}

\* --begin and --end: absent or "1970-02"
InvoiceMonths == {NoneVal, Some(<<49, 57, 55, 48, 45, 48, 50>>)}

InitInvoice ==
    /\ pc = "invoice"
    /\ stack \in Lists(InvoiceSessions, MaxSessions)
    /\ args = NoneVal
    /\ out = NoneVal
    /\ row = <<>>
    /\ parsed = NoneVal
    /\ i = 0
    /\ events = <<>>
    /\ state = <<0, 0>>
    /\ err = NoneVal
    /\ result = NoneVal

\* Lines 166-205, out being the line items printed
Invoice ==
    /\ pc = "invoice"
    /\ \E tag \in {NoneVal} \cup {Some(g) : g \in ReportTags},
          begin_date \in InvoiceMonths, end_date \in InvoiceMonths :
         LET results == Results(stack, tag, begin_date, end_date)
             days == DaysInOrder(results)
         IN  /\ args' = [tag |-> tag, begin_date |-> begin_date,
                         end_date |-> end_date]
             /\ \E line_items \in OneOfEach([k \in DOMAIN days |->
                        LineItems(days[k], RowsOfDay(results, days[k]))]) :
                    out' = Some(SortedItems(line_items))
    /\ pc' = "invoice_done"
    /\ UNCHANGED <<row, parsed, i, events, state, stack, err, result>>

NextInvoice == Invoice

SpecInvoice == InitInvoice /\ [][NextInvoice]_vars

(***************************************************************************)
(* The punch state machine as the specification words it: phases by name,  *)
(* the transition table, and the accumulation rule replayed over the       *)
(* events read.                                                            *)
(***************************************************************************)
Idle == 0
Running == 1
Paused == 2
Unpaused == 3
IllegalMove == -1

Phases == {Idle, Running, Paused, Unpaused}

SpecTable(phase, action) ==
    CASE phase = Idle /\ action = ClockIn -> Running
      [] phase = Running /\ action = ClockOut -> Idle
      [] phase = Running /\ action = Pause -> Paused
      [] phase = Paused /\ action = ClockOut -> Idle
      [] phase = Paused /\ action = ClockIn -> Running
      [] phase = Paused /\ action = Unpause -> Unpaused
      [] phase = Unpaused /\ action = ClockOut -> Idle
      [] phase = Unpaused /\ action = ClockIn -> Running
      [] phase = Unpaused /\ action = Pause -> Paused
      [] OTHER -> IllegalMove

\* The phase after the events evs from Idle; IllegalMove once one was illegal.
RECURSIVE PhaseAfter(_)
PhaseAfter(evs) ==
    IF evs = <<>> THEN Idle
    ELSE LET before == PhaseAfter(SubSeq(evs, 1, Len(evs) - 1))
         IN  IF before = IllegalMove THEN IllegalMove
             ELSE SpecTable(before, Last(evs).char)

\* The phase in which event k of evs arrives.
PhaseBefore(evs, k) == PhaseAfter(SubSeq(evs, 1, k - 1))

\* Event k is the first of evs that is illegal in the phase it arrives in.
FirstIllegal(evs, k) ==
    /\ PhaseBefore(evs, k) # IllegalMove
    /\ SpecTable(PhaseBefore(evs, k), evs[k].char) = IllegalMove

NonDecreasing(evs) == \A k \in 1..(Len(evs) - 1) : evs[k].t <= evs[k + 1].t

\* The event that opened the last session: the last ClockIn arriving in Idle.
OpenedAt(evs) ==
    CHOOSE k \in DOMAIN evs :
        /\ evs[k].char = ClockIn /\ PhaseBefore(evs, k) = Idle
        /\ \A j \in DOMAIN evs :
               evs[j].char = ClockIn /\ PhaseBefore(evs, j) = Idle => j <= k

\* The time event k adds: what has passed since the event before it, when it
\* arrives with the clock ticking.
Counted(evs, k) ==
    IF PhaseBefore(evs, k) \in {Running, Unpaused}
    THEN evs[k].t - evs[k - 1].t
    ELSE 0

RECURSIVE SumCounted(_, _, _)
SumCounted(evs, from, to) ==
    IF from > to THEN 0
    ELSE Counted(evs, to) + SumCounted(evs, from, to - 1)

\* The duration accrued by the last session over evs.
Accrued(evs) == SumCounted(evs, OpenedAt(evs) + 1, Len(evs))

Actions(evs) == [k \in DOMAIN evs |-> evs[k].char]

SessionBounds(sess) ==
    /\ sess.last_timestamp >= sess.start_time
    /\ 0 <= sess.duration
    /\ sess.duration <= sess.last_timestamp - sess.start_time

(***************************************************************************)
(* C1: when the k-th event (from 0) is the first whose action is illegal   *)
(* in the phase it arrives in, parse has raised the error naming line k,   *)
(* has read no line after it and has returned no list; a log whose first   *)
(* event is Pause, Unpause or ClockOut fails at line 0.                    *)
(***************************************************************************)
RaisedIllegalAt(k) ==
    /\ pc = "raised"
    /\ err = Some([kind |-> "WasntExpecting", row |-> k])
    /\ i = k
    /\ Len(events) = k + 1
    /\ result = NoneVal

C1_IllegalEventRaises ==
    /\ \A k \in DOMAIN events : FirstIllegal(events, k) => RaisedIllegalAt(k - 1)
    /\ events # <<>> /\ events[1].char \in {Pause, Unpause, ClockOut}
           => RaisedIllegalAt(0)

C1_Witness ==
    /\ Len(events) = 3
    /\ FirstIllegal(events, 3)
    /\ pc = "raised"
    /\ Len(stack) = 1

(***************************************************************************)
(* C2: an event is accepted exactly when the specification's table has an  *)
(* entry for (phase before it, action), the phase after an accepted event  *)
(* is that entry, and while parse runs the current phase is one of the     *)
(* four phases.                                                            *)
(***************************************************************************)
C2_Step ==
    Len(events') = Len(events) + 1 =>
        LET next == SpecTable(state[2], Last(events').char)
        IN  /\ state[2] \in Phases
            /\ (next = IllegalMove) <=> (pc' = "raised")
            /\ next # IllegalMove =>
                   /\ pc' = "parse"
                   /\ i' = i + 1
                   /\ state' = <<state[2], next>>
                   /\ state'[2] \in Phases

C2_FollowsTable == [][C2_Step]_vars

C2_Witness ==
    /\ pc = "parse"
    /\ state = <<Unpaused, Paused>>
    /\ Len(events) = MaxRows

(***************************************************************************)
(* C3: ClockIn at t0, Pause at t1, Unpause at t2, ClockOut at t3 with      *)
(* t0 < t1 < t2 < t3 returns exactly one session, of duration              *)
(* (t1 - t0) + (t3 - t2); at 09:00:00, 10:00:00, 10:15:00, 11:00:00 that   *)
(* is 6300 seconds.                                                        *)
(***************************************************************************)
ScenarioPlayed ==
    /\ pc = "returned"
    /\ Actions(events) = ScenarioActions
    /\ \A k \in 1..3 : events[k].t < events[k + 1].t

C3_PausedIntervalExcluded ==
    ScenarioPlayed =>
        /\ Len(result) = 1
        /\ Len(result[1]) = 1
        /\ result[1][1].duration
               = (events[2].t - events[1].t) + (events[4].t - events[3].t)
        /\ [k \in 1..4 |-> events[k].t] = ScenarioTimes
               => result[1][1].duration = 6300

C3_Witness ==
    /\ ScenarioPlayed
    /\ [k \in 1..4 |-> events[k].t] = ScenarioTimes
    /\ result[1][1].tag = <<119, 111, 114, 107>>

(***************************************************************************)
(* C4 as stated: after every accepted event, whatever the timestamps,      *)
(* every session has last_timestamp >= start_time and                     *)
(* 0 <= duration <= last_timestamp - start_time.                           *)
(***************************************************************************)
C4_AnyTimestamps == \A k \in DOMAIN stack : SessionBounds(stack[k])

(***************************************************************************)
(* C4 amended: the same, for the logs whose timestamps are non-decreasing  *)
(* in file order.                                                          *)
(***************************************************************************)
C4_ChronologicalLog ==
    NonDecreasing(events) => \A k \in DOMAIN stack : SessionBounds(stack[k])

C4_Witness ==
    /\ NonDecreasing(events)
    /\ Len(events) = MaxRows
    /\ Len(stack) = 1
    /\ stack[1].duration > 0
    /\ stack[1].duration < stack[1].last_timestamp - stack[1].start_time

(***************************************************************************)
(* C5: a log that ends in Running, Paused or Unpaused is returned without  *)
(* error; its last session has the duration accrued up to the last event   *)
(* and that event's timestamp as last_timestamp.                           *)
(***************************************************************************)
EndsOpen ==
    /\ events # <<>>
    /\ i = Len(events)
    /\ PhaseAfter(events) \in {Running, Paused, Unpaused}

\* Every line read was tokenized into an event.
Tokenized == ~(pc = "raised" /\ err[1].kind \in {"ValueError", "InvalidTimeclock"})

C5_OpenEndAccepted ==
    pc # "parse" /\ EndsOpen /\ Tokenized =>
        /\ pc = "returned"
        /\ err = NoneVal
        /\ result = Some(stack)
        /\ stack # <<>>
        /\ Last(stack).last_timestamp = Last(events).t
        /\ Last(stack).duration = Accrued(events)

C5_Witness ==
    /\ pc = "returned"
    /\ EndsOpen
    /\ PhaseAfter(events) = Unpaused
    /\ Len(events) >= 3
    /\ Last(stack).duration > 0

(***************************************************************************)
(* C6: for every line with a valid action code, parse_row raises nothing   *)
(* and returns as tag the text of the remainder before its first double    *)
(* space and as notes everything after it (the whole remainder and the     *)
(* empty string when it has no double space), also when the remainder      *)
(* holds two double spaces or more.                                        *)
(***************************************************************************)
SpacesOf(s) == {k \in DOMAIN s : s[k] = SP}

\* The text after the timestamp: what follows the third space of the
\* stripped line.
Remainder(r) ==
    LET s == Strip(r)
        third == {k \in SpacesOf(s) : Cardinality({j \in SpacesOf(s) : j < k}) = 2}
    IN  IF third = {} THEN <<>>
        ELSE SubSeq(s, (CHOOSE k \in third : TRUE) + 1, Len(s))

DoubleSpaces(s) == {k \in 1..(Len(s) - 1) : s[k] = SP /\ s[k + 1] = SP}

FirstDoubleSpace(s) ==
    CHOOSE k \in DoubleSpaces(s) : \A j \in DoubleSpaces(s) : k <= j

ExpectedTag(s) ==
    IF DoubleSpaces(s) = {} THEN s ELSE SubSeq(s, 1, FirstDoubleSpace(s) - 1)

ExpectedNotes(s) ==
    IF DoubleSpaces(s) = {} THEN <<>>
    ELSE SubSeq(s, FirstDoubleSpace(s) + 2, Len(s))

C6_SplitOnFirstDoubleSpace ==
    pc = "parse_row_done" /\ <<row[1]>> \in ValidStates =>
        /\ parsed[1].ok
        /\ parsed[1].tag = ExpectedTag(Remainder(row))
        /\ parsed[1].notes = ExpectedNotes(Remainder(row))

(***************************************************************************)
(* Reading a printed number back.                                          *)
(***************************************************************************)
IsDigits(str) == str # <<>> /\ \A k \in DOMAIN str : str[k] \in 48..57

\* A natural number written without needless leading zeros.
IsNatural(str) == IsDigits(str) /\ (Len(str) > 1 => str[1] # 48)

RECURSIVE DigitsValue(_)
DigitsValue(str) ==
    IF str = <<>> THEN 0
    ELSE 10 * DigitsValue(SubSeq(str, 1, Len(str) - 1)) + (Last(str) - 48)

Dots(str) == {k \in DOMAIN str : str[k] = 46}

\* str reads as the integer n.
ReadsAsInteger(str, n) == IsNatural(str) /\ DigitsValue(str) = n

\* str reads as a number of at most 2 decimals: its value in hundredths.
DecimalHundredths(str) ==
    LET dot == CHOOSE k \in Dots(str) : TRUE
        frac == SubSeq(str, dot + 1, Len(str))
    IN  100 * DigitsValue(SubSeq(str, 1, dot - 1))
            + (IF Len(frac) = 1 THEN 10 * DigitsValue(frac) ELSE DigitsValue(frac))

IsDecimal(str) ==
    /\ Cardinality(Dots(str)) = 1
    /\ LET dot == CHOOSE k \in Dots(str) : TRUE
       IN  /\ IsNatural(SubSeq(str, 1, dot - 1))
           /\ IsDigits(SubSeq(str, dot + 1, Len(str)))
           /\ Len(str) - dot \in {1, 2}

\* str is the quotient d / per rounded to 2 decimal places: a decimal no
\* further than half a hundredth from it.
ReadsAsRounded(str, d, per) ==
    /\ IsDecimal(str)
    /\ 2 * Abs(DecimalHundredths(str) * per - 100 * d) <= per

(***************************************************************************)
(* C7: report keeps a session iff (begin is absent or start_time >= begin) *)
(* and (end is absent or last_timestamp < end) and (tag is absent or the   *)
(* session's tag equals it): each session of the list given is in the      *)
(* filtered list as often as it was given when these hold, and not at all  *)
(* otherwise.                                                              *)
(***************************************************************************)
Count(lst, x) == Cardinality({k \in DOMAIN lst : lst[k] = x})

ShouldKeep(sess, a) ==
    /\ a.begin = NoneVal \/ sess.start_time >= a.begin[1]
    /\ a.end = NoneVal \/ sess.last_timestamp < a.end[1]
    /\ a.tag = NoneVal \/ sess.tag = a.tag[1]

C7_Filter ==
    pc = "report_done" =>
        /\ \A sess \in ReportSessions :
               Count(out[1].data, sess)
                   = IF ShouldKeep(sess, args) THEN Count(stack, sess) ELSE 0
        /\ args.grouping = NoneVal => Len(out[1].printed) = Len(out[1].data)

C7_Witness ==
    /\ pc = "report_done"
    /\ args.begin # NoneVal /\ args.end # NoneVal /\ args.tag # NoneVal
    /\ \E k \in DOMAIN stack :
           /\ stack[k].start_time = args.begin[1]
           /\ Count(out[1].data, stack[k]) = 1
    /\ \E k \in DOMAIN stack :
           /\ stack[k].last_timestamp = args.end[1]
           /\ stack[k].tag = args.tag[1]
           /\ Count(out[1].data, stack[k]) = 0

(***************************************************************************)
(* C8: the total durations of the rows group_report builds sum to the sum  *)
(* of the durations of the sessions it was given, for every granularity.   *)
(***************************************************************************)
RECURSIVE SumOfDurations(_)
SumOfDurations(data) ==
    IF data = <<>> THEN 0 ELSE Head(data).duration + SumOfDurations(Tail(data))

RECURSIVE SumOfTotals(_)
SumOfTotals(rows) ==
    IF rows = <<>> THEN 0 ELSE Head(rows)[3] + SumOfTotals(Tail(rows))

C8_GroupingKeepsTheSum ==
    pc = "group_report_done" =>
        SumOfTotals(out[1].result) = SumOfDurations(stack)

C8_Witness ==
    /\ pc = "group_report_done"
    /\ args.grouping_units = GroupD
    /\ Len(stack) = 3
    /\ Len(out[1].result) = 2
    /\ stack[1].tag = stack[3].tag /\ stack[1].tag # stack[2].tag
    /\ stack[1].start_time # stack[3].start_time
    /\ stack[1].duration # stack[3].duration

(***************************************************************************)
(* C9: for d >= 0 seconds, duration_into_units returns d and "s" for unit  *)
(* s; for unit m (h) the exact quotient d/60 (d/3600) as an integer and    *)
(* the unit when d divides evenly, and otherwise the quotient rounded to 2 *)
(* decimal places and the unit; 3600,h is "1h", 5400,h is "1.5h", 61,m is  *)
(* "1.02m" and 59,s is "59s".                                              *)
(***************************************************************************)
UnitsReturned(d, u, str) ==
    pc = "duration_into_units_done"
        /\ args = [duration_in_seconds |-> d, desired_units |-> u]
        => out = Some(str)

C9_Formatted ==
    /\ pc = "duration_into_units_done" =>
        LET d == args.duration_in_seconds
            u == args.desired_units
            str == out[1]
            val == SubSeq(str, 1, Len(str) - 1)
            per == IF u = UnitM THEN 60 ELSE 3600
        IN  /\ str # <<>> /\ <<Last(str)>> = u
            /\ u = UnitS => ReadsAsInteger(val, d)
            /\ u # UnitS /\ d % per = 0 => ReadsAsInteger(val, d \div per)
            /\ u # UnitS /\ d % per # 0 => ReadsAsRounded(val, d, per)
    /\ UnitsReturned(3600, UnitH, <<49, 104>>)
    /\ UnitsReturned(5400, UnitH, <<49, 46, 53, 104>>)
    /\ UnitsReturned(61, UnitM, <<49, 46, 48, 50, 109>>)
    /\ UnitsReturned(59, UnitS, <<53, 57, 115>>)

C9_Witness ==
    /\ pc = "duration_into_units_done"
    /\ args = [duration_in_seconds |-> 61, desired_units |-> UnitM]
    /\ out = Some(<<49, 46, 48, 50, 109>>)

(***************************************************************************)
(* The sessions an invoice is about, by numbers: the day and the month a   *)
(* session started in, counted from 1970-01-01.                            *)
(***************************************************************************)
DayOf(sess) == sess.start_time \div 86400

MonthIndex(year, month) == 12 * year + month

MonthOf(sess) ==
    LET date == CivilFromDays(DayOf(sess))
    IN  MonthIndex(date.year, date.month)

\* The month a --begin or --end argument "YYYY-MM" names.
MonthNamed(str) ==
    MonthIndex(DigitsValue(SubSeq(str, 1, 4)), DigitsValue(SubSeq(str, 6, 7)))

\* The day a date "YYYY-MM-DD" names.
DayNamed(str) ==
    DaysFromCivil(DigitsValue(SubSeq(str, 1, 4)), DigitsValue(SubSeq(str, 6, 7)),
                  DigitsValue(SubSeq(str, 9, 10)))

InWindow(sess) ==
    /\ args.begin_date = NoneVal \/ MonthOf(sess) >= MonthNamed(args.begin_date[1])
    /\ args.end_date = NoneVal \/ MonthOf(sess) < MonthNamed(args.end_date[1])

WithTag == {k \in DOMAIN stack : Some(stack[k].tag) = args.tag}

WithTagInWindow == {k \in WithTag : InWindow(stack[k])}

RECURSIVE SumOver(_)
SumOver(S) ==
    IF S = {} THEN 0
    ELSE LET k == CHOOSE x \in S : TRUE
         IN  stack[k].duration + SumOver(S \ {k})

\* The line items are those of the sessions S: one per day a session of S
\* started on, in ascending date order, of quantity (sum of that day's
\* durations) / 3600, with that day's distinct non-empty notes, each once.
LineItemsAreThoseOf(S) ==
    LET items == out[1]
        OnDay(day) == {k \in S : DayOf(stack[k]) = day}
    IN  /\ Len(items) = Cardinality({DayOf(stack[k]) : k \in S})
        /\ \A a, b \in DOMAIN items :
               a < b => DayNamed(items[a].date) < DayNamed(items[b].date)
        /\ \A a \in DOMAIN items :
               LET on == OnDay(DayNamed(items[a].date))
                   notes == {stack[k].notes : k \in on} \ {<<>>}
                   listed == IF items[a].notes = <<>> THEN <<>>
                             ELSE Split(items[a].notes, <<NL>>)
               IN  /\ Len(items[a].date) = 10
                   /\ on # {}
                   /\ items[a].quantity[1] * 3600 = SumOver(on) * items[a].quantity[2]
                   /\ {listed[k] : k \in DOMAIN listed} = notes
                   /\ Len(listed) = Cardinality(notes)

(***************************************************************************)
(* C10 as stated: for a given tag, the invoice view emits one line item    *)
(* per calendar day on which a session with that tag started, in ascending *)
(* date order, of quantity (sum of that day's durations of that tag) /     *)
(* 3600 and with the distinct non-empty notes of those sessions.           *)
(***************************************************************************)
C10_EveryDayOfTheTag ==
    pc = "invoice_done" /\ args.tag # NoneVal => LineItemsAreThoseOf(WithTag)

(***************************************************************************)
(* C10 amended: the same, of the sessions with that tag that started in a  *)
(* month not before --begin and before --end, when these are given.        *)
(***************************************************************************)
C10_EveryDayOfTheTagInWindow ==
    pc = "invoice_done" /\ args.tag # NoneVal
        => LineItemsAreThoseOf(WithTagInWindow)

C10_Witness ==
    /\ pc = "invoice_done"
    /\ args.tag = Some(<<97>>)
    /\ args.end_date # NoneVal
    /\ Len(stack) = 3
    /\ Cardinality(WithTag) = 3
    /\ Len(out[1]) = 1
    /\ out[1][1].notes = <<110, 10, 109>>
    /\ out[1][1].quantity = <<7200, 3600>>

(***************************************************************************)
(* The sessions of a log as the specification words them: the events parse *)
(* accepted, those of them that open a session, and the events that belong *)
(* to the n-th session.                                                    *)
(***************************************************************************)
Accepted == SubSeq(events, 1, i)

\* The events of evs that are a ClockIn arriving in Idle.
Opens(evs) ==
    {k \in DOMAIN evs : evs[k].char = ClockIn /\ PhaseBefore(evs, k) = Idle}

\* The n-th of them, in file order.
NthOpen(evs, n) ==
    CHOOSE k \in Opens(evs) : Cardinality({j \in Opens(evs) : j < k}) = n - 1

\* The last event of the n-th session: the one before the next opening, or
\* the last of evs.
LastEventOf(evs, n) ==
    IF n < Cardinality(Opens(evs)) THEN NthOpen(evs, n + 1) - 1 ELSE Len(evs)

(***************************************************************************)
(* C11: an accepted event at time t adds to the duration of the most       *)
(* recently opened session exactly t minus that session's last_timestamp   *)
(* when it arrives in Running or Unpaused (whatever its action), and       *)
(* nothing when it arrives in Paused or in Idle, where the session it      *)
(* opens starts at 0; it then leaves t as the session's last_timestamp.    *)
(* Hence each session's duration is the sum of the intervals between its   *)
(* consecutive events that began in Running or Unpaused.                   *)
(***************************************************************************)
C11_Step ==
    i' = i + 1 =>
        LET t == Last(events').t
            before == PhaseAfter(events)
            sess == Last(stack')
        IN  /\ sess.last_timestamp = t
            /\ before \in {Running, Unpaused} =>
                   /\ Len(stack') = Len(stack)
                   /\ sess.duration - Last(stack).duration
                          = t - Last(stack).last_timestamp
            /\ before = Paused =>
                   /\ Len(stack') = Len(stack)
                   /\ sess.duration - Last(stack).duration = 0
            /\ before = Idle => sess.duration = 0

C11_SumOfIntervals ==
    \A n \in DOMAIN stack :
        stack[n].duration
            = SumCounted(Accepted, NthOpen(Accepted, n) + 1,
                         LastEventOf(Accepted, n))

C11_AddsElapsedWhenTicking == [][C11_Step]_vars /\ []C11_SumOfIntervals

\* ClockIn, Pause, Unpause, ClockIn: the interval ended by a ClockIn issued
\* from Unpaused has been added to the session.
C11_Witness ==
    /\ pc = "parse"
    /\ Actions(events) = <<ClockIn, Pause, Unpause, ClockIn>>
    /\ i = 4
    /\ events[4].t > events[3].t
    /\ events[3].t > events[2].t
    /\ events[2].t = events[1].t
    /\ Len(stack) = 1
    /\ stack[1].duration = events[4].t - events[3].t

(***************************************************************************)
(* C12: parse appends a session exactly at the accepted events that arrive *)
(* in Idle (each a ClockIn, taking the machine to Running) and at no other *)
(* event, so the list holds as many sessions as ClockIn events were        *)
(* received in Idle; the new session starts and was last seen at the       *)
(* event's time, has duration 0 and the event's tag and notes. A ClockIn   *)
(* arriving in Paused or Unpaused leads to Running and appends nothing.    *)
(***************************************************************************)
C12_Step ==
    Len(events') = Len(events) + 1 =>
        LET ev == Last(events')
            before == PhaseAfter(events)
            after == SpecTable(before, ev.char)
            rem == Remainder(row')
        IN  /\ Len(stack') = Len(stack) + 1
                   <=> i' = i + 1 /\ before = Idle /\ after = Running
            /\ Len(stack') # Len(stack) + 1 => Len(stack') = Len(stack)
            /\ Len(stack') = Len(stack) + 1 =>
                   /\ ev.char = ClockIn
                   /\ Last(stack') = [start_time |-> ev.t,
                                      last_timestamp |-> ev.t,
                                      tag |-> ExpectedTag(rem),
                                      duration |-> 0,
                                      notes |-> ExpectedNotes(rem)]
            /\ ev.char = ClockIn /\ before \in {Paused, Unpaused} =>
                   /\ i' = i + 1
                   /\ state'[2] = Running
                   /\ Len(stack') = Len(stack)

C12_OneSessionPerOpening == Len(stack) = Cardinality(Opens(Accepted))

C12_OpensOnIdleClockIn == [][C12_Step]_vars /\ []C12_OneSessionPerOpening

\* ClockIn, Pause, ClockIn, Pause: the second ClockIn, with other notes,
\* opened nothing.
C12_Witness ==
    /\ pc = "parse"
    /\ Actions(events) = <<ClockIn, Pause, ClockIn, Pause>>
    /\ i = 4
    /\ Len(stack) = 1
    /\ stack[1].tag = <<120>>
    /\ stack[1].notes = <<110>>
    /\ stack[1].start_time = events[1].t
    /\ events[3].t # events[1].t

(***************************************************************************)
(* C13: no step of parse removes or reorders sessions, changes a session   *)
(* other than the last of the list, or changes the start_time, tag or      *)
(* notes of a session already in the list: the tag and notes of an event   *)
(* that opens no session are dropped.                                      *)
(***************************************************************************)
C13_Step ==
    /\ Len(stack') >= Len(stack)
    /\ \A k \in 1..(Len(stack) - 1) : stack'[k] = stack[k]
    /\ \A k \in DOMAIN stack :
           /\ stack'[k].start_time = stack[k].start_time
           /\ stack'[k].tag = stack[k].tag
           /\ stack'[k].notes = stack[k].notes

C13_AppendOnly == [][C13_Step]_vars

\* Two sessions, the second with tag "x" and notes "n"; a Pause whose line
\* reads "w" has then been accepted.
C13_Witness ==
    /\ pc = "parse"
    /\ Actions(events) = <<ClockIn, ClockOut, ClockIn, Pause>>
    /\ i = 4
    /\ Remainder(row) = <<119>>
    /\ Len(stack) = 2
    /\ stack[1].tag = <<119>>
    /\ stack[1].last_timestamp = events[2].t
    /\ events[2].t # events[4].t
    /\ stack[2].tag = <<120>>
    /\ stack[2].notes = <<110>>
    /\ stack[2].last_timestamp = events[4].t

(***************************************************************************)
(* C14: while the timestamps read so far are non-decreasing in file order, *)
(* no step of parse lowers the duration of a session, and a duration       *)
(* changes only when an event arrives in Running or Unpaused.              *)
(***************************************************************************)
C14_Step ==
    NonDecreasing(events') =>
        \A k \in DOMAIN stack :
            /\ stack'[k].duration >= stack[k].duration
            /\ stack'[k].duration # stack[k].duration =>
                   /\ Len(events') = Len(events) + 1
                   /\ PhaseAfter(events) \in {Running, Unpaused}

C14_DurationNeverDecreases == [][C14_Step]_vars

\* ClockIn, Pause, Unpause, Pause at non-decreasing times: the duration grew
\* at both Pause events and stood still over the pause.
C14_Witness ==
    /\ pc = "parse"
    /\ Actions(events) = <<ClockIn, Pause, Unpause, Pause>>
    /\ i = 4
    /\ NonDecreasing(events)
    /\ events[1].t < events[2].t
    /\ events[3].t < events[4].t
    /\ Len(stack) = 1
    /\ stack[1].duration = 2

(***************************************************************************)
(* C15: the rows group_report builds hold each (bucket key, tag) pair that *)
(* occurs among the sessions it was given exactly once, in ascending       *)
(* (bucket key, tag) order, with as total the sum of the durations of      *)
(* exactly the sessions of that pair, whatever the order the sessions were *)
(* given in.                                                               *)
(***************************************************************************)
PairOf(sess, grouping_units) ==
    <<get_date_key(sess.start_time, grouping_units), sess.tag>>

\* a sorts before b: a is a proper prefix of b, or is smaller where they
\* first differ.
Precedes(a, b) ==
    \/ Len(a) < Len(b) /\ SubSeq(b, 1, Len(a)) = a
    \/ \E n \in 1..Len(a) :
           /\ n <= Len(b)
           /\ SubSeq(a, 1, n - 1) = SubSeq(b, 1, n - 1)
           /\ a[n] < b[n]

PairPrecedes(p, q) == Precedes(p[1], q[1]) \/ (p[1] = q[1] /\ Precedes(p[2], q[2]))

RECURSIVE TotalOfPair(_, _, _)
TotalOfPair(data, grouping_units, pair) ==
    IF data = <<>> THEN 0
    ELSE (IF PairOf(Head(data), grouping_units) = pair
          THEN Head(data).duration ELSE 0)
             + TotalOfPair(Tail(data), grouping_units, pair)

C15_FullGroupBy ==
    pc = "group_report_done" =>
        LET res == out[1].result
            g == args.grouping_units
            pairs == {PairOf(stack[k], g) : k \in DOMAIN stack}
        IN  /\ {<<res[k][1], res[k][2]>> : k \in DOMAIN res} = pairs
            /\ Len(res) = Cardinality(pairs)
            /\ \A k \in 1..(Len(res) - 1) :
                   PairPrecedes(<<res[k][1], res[k][2]>>,
                                <<res[k + 1][1], res[k + 1][2]>>)
            /\ \A k \in DOMAIN res :
                   res[k][3] = TotalOfPair(stack, g, <<res[k][1], res[k][2]>>)

\* Three sessions of one tag given out of order: the first and the third
\* started in the same hour, the second an hour earlier.
C15_Witness ==
    /\ pc = "group_report_done"
    /\ args.grouping_units = GroupH
    /\ Len(stack) = 3
    /\ stack[1].tag = stack[2].tag /\ stack[2].tag = stack[3].tag
    /\ stack[1].start_time = stack[3].start_time
    /\ stack[2].start_time < stack[1].start_time
    /\ stack[1].duration # stack[3].duration
    /\ Len(out[1].result) = 2
    /\ out[1].result[1][3] = stack[2].duration
    /\ out[1].result[2][3] = stack[1].duration + stack[3].duration

(***************************************************************************)
(* C16: every call of parse starts in Idle, with Idle as previous phase    *)
(* and an empty session list, also after a call that ended in another      *)
(* phase or raised; what a call holds and returns is what its own events   *)
(* give, whether or not another log was parsed before.                     *)
(***************************************************************************)
C16_Step ==
    pc # "parse" /\ pc' = "parse" =>
        /\ state' = <<Idle, Idle>>
        /\ stack' = <<>>

\* The sessions the events evs give, each line reading "w".
SessionsOf(evs) ==
    [n \in 1..Cardinality(Opens(evs)) |->
        [start_time |-> evs[NthOpen(evs, n)].t,
         last_timestamp |-> evs[LastEventOf(evs, n)].t,
         tag |-> <<119>>,
         duration |-> SumCounted(evs, NthOpen(evs, n) + 1, LastEventOf(evs, n)),
         notes |-> <<>>]]

C16_OwnEventsOnly ==
    /\ state[2] = PhaseAfter(events)
    /\ stack = SessionsOf(Accepted)
    /\ pc = "returned" => result = Some(SessionsOf(events))

C16_FreshPerCall == [][C16_Step]_vars /\ []C16_OwnEventsOnly

\* A first log raised on a malformed line read in Running; a second log of
\* ClockIn, ClockOut, ClockIn has then been parsed and returned.
C16_Witness ==
    /\ out = Some([pc |-> "raised", phase |-> Running])
    /\ pc = "returned"
    /\ Actions(events) = <<ClockIn, ClockOut, ClockIn>>
    /\ Len(result[1]) = 2
    /\ result[1][1].duration > 0

(***************************************************************************)
(* C17: report and group_report leave the list they are given as it was:   *)
(* the same sessions, in the same order, with the same field values.       *)
(***************************************************************************)
C17_Step ==
    pc' \in {"report_done", "group_report_done"} =>
        /\ Len(stack') = Len(stack)
        /\ \A k \in DOMAIN stack : stack'[k] = stack[k]

C18_NeverIndexedEmpty ==
    /\ i > 0 => stack # <<>>
    /\ pc = "raised" =>
           /\ err[1].kind # "IndexError"
           /\ Tokenized => err[1].kind = "WasntExpecting"
    /\ stack = <<>> /\ events # <<>> =>
           /\ pc = "raised"
           /\ err = Some([kind |-> "WasntExpecting", row |-> 0])

\* An Unpause as first line: rejected with the list still empty.
C18_Witness ==
    /\ pc = "raised"
    /\ Actions(events) = <<Unpause>>
    /\ stack = <<>>
    /\ err = Some([kind |-> "WasntExpecting", row |-> 0])

(***************************************************************************)
(* C19: when the accepted events have non-decreasing timestamps, the       *)
(* sessions of the list follow one another in time without overlap: every  *)
(* session but the last was closed by a ClockOut, the last event before    *)
(* the next session was opened, and was last seen no later than the next   *)
(* session starts.                                                         *)
(***************************************************************************)
C19_Chronological ==
    NonDecreasing(Accepted) =>
        /\ Len(stack) = Cardinality(Opens(Accepted))
        /\ \A k \in 1..(Len(stack) - 1) :
               LET closing == Accepted[LastEventOf(Accepted, k)]
               IN  /\ closing.char = ClockOut
                   /\ stack[k].last_timestamp = closing.t
                   /\ stack[k].start_time <= stack[k].last_timestamp
                   /\ stack[k].last_timestamp <= stack[k + 1].start_time

\* ClockIn at 0, ClockOut at 1, ClockIn at 2, ClockOut at 2.
C19_Witness ==
    /\ pc = "returned"
    /\ Actions(events) = <<ClockIn, ClockOut, ClockIn, ClockOut>>
    /\ NonDecreasing(events)
    /\ Len(stack) = 2
    /\ stack[1].start_time < stack[1].last_timestamp
    /\ stack[1].last_timestamp < stack[2].start_time

====
